---- MODULE Spec2Model ----
(***************************************************************************)
(* The process supervisor of gowork: one ProcessManager record, guarded by *)
(* pm.mu, driven by concurrent Start / Stop / GetStatus / GetLogs calls,   *)
(* by the waitForProcess goroutine of every successful spawn, by the       *)
(* output-copying goroutine os/exec starts for cmd.Stdout/cmd.Stderr, and  *)
(* by the child processes themselves.                                      *)
(***************************************************************************)
EXTENDS Integers, Sequences, FiniteSets, TLC

\* Bounds of the model.
MaxStarts == 2      \* exec.Command calls (spawn attempts) in one behaviour
MaxOut == 2         \* bytes one child writes to its output streams

\* The request goroutines that call into the ProcessManager concurrently.
Clients == {"h1", "h2"}

\* The goroutine that runs main(), and all goroutines that call the methods.
Main == "main"
Threads == Clients \cup {Main}

\* ProcessStatus values.
StatusNotStarted == "not_started"
StatusRunning == "running"
StatusSuccess == "success"
StatusFailed == "failed"
ProcessStatus == {StatusNotStarted, StatusRunning, StatusSuccess, StatusFailed}

\* The error values the methods return ("ok" is a nil error).
ErrAlreadyRunning == "process is already running"
ErrStartFailed == "failed to start process"
ErrNotRunning == "process is not running"
ErrSignalFailed == "failed to send SIGTERM to process"

Ops == {"Start", "Stop", "GetStatus", "GetLogs"}

\* The routes main() registers, the ones whose handlers demand POST, the
\* method each handler calls, and the request methods tried.
Routes == {"/status", "/start", "/stop", "/log", "/exit"}
PostOnly == {"/start", "/stop", "/exit"}
OpOf(route) ==
    CASE route = "/status" -> "GetStatus"
      [] route = "/start" -> "Start"
      [] route = "/stop" -> "Stop"
      [] route = "/log" -> "GetLogs"
      [] route = "/exit" -> "Stop"
Methods == {"GET", "POST"}

\* The response codes the handlers use.
StatusOK == "200 OK"
StatusBadRequest == "400 Bad Request"
StatusMethodNotAllowed == "405 Method Not Allowed"
Handles == 1..MaxStarts
Nil == 0

\* A byte of child output is named by the run that wrote it and its position
\* in that run's output; Zero is a byte of freshly allocated buffer memory.
Zero == <<0, 0>>
OutByte(h, k) == <<h, k>>

\* Who holds pm.mu.
Free == <<"free", "", 0>>
ClientOf(c) == <<"client", c, 0>>
ReaperOf(h) == <<"waitForProcess", "", h>>

VARIABLES
    status,     \* pm.status
    cmd,        \* pm.cmd: Nil, or the handle made by the latest exec.Command
    logBuffer,  \* pm.logBuffer: [arr: backing array, n: length in use]
    mu,         \* pm.mu: Free, or the goroutine holding it
    pc,         \* per client: "idle", "lock" (blocked in pm.mu.Lock), "body"
    op,         \* per client: the method it is in
    ret,        \* what the step just taken returned: [by, op, err, st, logs]
    ncmd,       \* number of exec.Command calls so far
    proc,       \* per handle: the OS process [st, exit, sig, written]
    pipe,       \* per handle: bytes written by the child, not yet read
    copier,     \* per handle: the goroutine copying the pipe to pm.logBuffer
    reaper,     \* per handle: the waitForProcess goroutine [pc, target, err]
    committed,  \* history: the bytes whose append to pm.logBuffer completed
    seen,       \* history, per client in GetLogs: values of committed so far
    commits,    \* history, per handle: terminal commits made for that run
    main,       \* where main() stands: "args", "stat", "new", "start",
                \* "listen", "serve"; "fatal" and "exit" once the program ended
    exe,        \* what os.Stat finds at the executable's path
    req,        \* per handler goroutine: the request in hand [route, method, at]
    resp        \* what the step just taken wrote to its http.ResponseWriter

vars == <<status, cmd, logBuffer, mu, pc, op, ret, ncmd, proc, pipe, copier,
          reaper, committed, seen, commits, main, exe, req, resp>>

NoReq == [route |-> "none", method |-> "none", at |-> "none"]
NoResp == [by |-> "none", route |-> "none", method |-> "none", code |-> "none",
           text |-> "none", logs |-> <<>>]

NoRet == [by |-> "none", op |-> "none", err |-> "none", st |-> "none", logs |-> <<>>]
NoProc == [st |-> "none", exit |-> "none", sig |-> FALSE, written |-> 0]
NoCopier == [pc |-> "none", chunk |-> <<>>, m |-> 0]
NoReaper == [pc |-> "none", target |-> Nil, err |-> "none"]

\* NewProcessManager: status NotStarted, nil cmd, empty buffer, unlocked mutex.
Init ==
    /\ status = StatusNotStarted
    /\ cmd = Nil
    /\ logBuffer = [arr |-> <<>>, n |-> 0]
    /\ mu = Free
    /\ pc = [c \in Threads |-> "idle"]
    /\ op = [c \in Threads |-> "none"]
    /\ ret = NoRet
    /\ ncmd = 0
    /\ proc = [h \in Handles |-> NoProc]
    /\ pipe = [h \in Handles |-> <<>>]
    /\ copier = [h \in Handles |-> NoCopier]
    /\ reaper = [h \in Handles |-> NoReaper]
    /\ committed = <<>>
    /\ seen = [c \in Threads |-> {}]
    /\ commits = [h \in Handles |-> 0]
    /\ main = "new"
    /\ exe = "found"
    /\ req = [c \in Clients |-> NoReq]
    /\ resp = NoResp

----------------------------------------------------------------------------
\* bytes.Buffer as pm.logBuffer uses it.

\* logBuffer.String(): the bytes in use.
BufString == SubSeq(logBuffer.arr, 1, logBuffer.n)

\* Variant: the buffer is not reset.
BufNotReset == logBuffer

\* logBuffer.Reset(): the length drops to zero, the backing array is kept.
BufReset == [logBuffer EXCEPT !.n = 0]

\* First half of logBuffer.Write(p): the length grows by len(p); fresh memory
\* is zeroed, memory kept across a Reset still holds what was there.
BufGrow(k) ==
    LET need == logBuffer.n + k
        have == Len(logBuffer.arr)
        arr2 == IF need > have
                  THEN logBuffer.arr \o [i \in 1..(need - have) |-> Zero]
                  ELSE logBuffer.arr
    IN [arr |-> arr2, n |-> need]

\* Second half of logBuffer.Write(p): p is copied in at offset m.
BufCopy(m, p) ==
    [logBuffer EXCEPT !.arr =
        [i \in 1..Len(logBuffer.arr) |->
            IF i > m /\ i <= m + Len(p) THEN p[i - m] ELSE logBuffer.arr[i]]]

\* The history of committed log values, as seen by the GetLogs calls in flight.
Observe(v) ==
    [c \in Threads |->
        IF pc[c] # "idle" /\ op[c] = "GetLogs" THEN seen[c] \cup {v} ELSE seen[c]]

----------------------------------------------------------------------------
\* The request goroutines.

InStart == {c \in Threads : pc[c] # "idle" /\ op[c] = "Start"}

\* A handler goroutine enters one of the four methods. A behaviour holds at
\* most MaxStarts calls of Start that get as far as exec.Command.
Call(c, o) ==
    /\ pc[c] = "idle"
    /\ o = "Start" => ncmd + Cardinality(InStart) < MaxStarts
    /\ pc' = [pc EXCEPT ![c] = "lock"]
    /\ op' = [op EXCEPT ![c] = o]
    /\ seen' = [seen EXCEPT ![c] = IF o = "GetLogs" THEN {committed} ELSE {}]
    /\ ret' = NoRet
    /\ UNCHANGED <<status, cmd, logBuffer, mu, ncmd, proc, pipe, copier,
                   reaper, committed, commits>>

\* pm.mu.Lock() at the top of every method.
Lock(c) ==
    /\ pc[c] = "lock"
    /\ mu = Free
    /\ mu' = ClientOf(c)
    /\ pc' = [pc EXCEPT ![c] = "body"]
    /\ ret' = NoRet
    /\ UNCHANGED <<status, cmd, logBuffer, op, ncmd, proc, pipe, copier,
                   reaper, committed, seen, commits>>

\* The method returns: the deferred pm.mu.Unlock() runs.
Return(c, r) ==
    /\ mu' = Free
    /\ pc' = [pc EXCEPT ![c] = "idle"]
    /\ op' = [op EXCEPT ![c] = "none"]
    /\ ret' = [NoRet EXCEPT !.by = c, !.op = op[c], !.err = r.err,
                            !.st = r.st, !.logs = r.logs]

InBody(c, o) == pc[c] = "body" /\ op[c] = o /\ mu = ClientOf(c)

\* Variants of Start's guard: no guard at all; a guard that refuses every
\* start but the first.
StartNeverRejects == FALSE
StartRejectsRestart == status # StatusNotStarted

\* Start's guard: a running process is not started again.
StartRejects == status = StatusRunning

\* Variant: the status is set to running before the spawn error is looked at.
SpawnFailedStillRunning == StatusRunning

\* The status Start records when cmd.Start() fails.
SpawnFailedStatus == StatusFailed

\* pm.cmd = exec.Command(...): the handle of the previous run is dropped; a
\* process that was waited for leaves nothing behind.
Dropped ==
    IF cmd \in Handles /\ proc[cmd].st = "reaped" /\ reaper[cmd].pc = "done"
      THEN [proc EXCEPT ![cmd] = [NoProc EXCEPT !.st = "reaped"]]
      ELSE proc

\* Variant: the log is reset before the guard is looked at.
StartWhileRunningAfterReset(c) ==
    /\ InBody(c, "Start")
    /\ StartRejects
    /\ logBuffer' = BufReset
    /\ committed' = <<>>
    /\ seen' = Observe(<<>>)
    /\ Return(c, [err |-> ErrAlreadyRunning, st |-> "none", logs |-> <<>>])
    /\ UNCHANGED <<status, cmd, ncmd, proc, pipe, copier, reaper, commits>>

\* Start, rejected.
StartWhileRunning(c) ==
    /\ InBody(c, "Start")
    /\ StartRejects
    /\ Return(c, [err |-> ErrAlreadyRunning, st |-> "none", logs |-> <<>>])
    /\ UNCHANGED <<status, cmd, logBuffer, ncmd, proc, pipe, copier, reaper,
                   committed, seen, commits>>

\* Start, cmd.Start() fails: the new handle and the reset are kept, no process,
\* no copying goroutine and no waitForProcess goroutine exist.
StartSpawnFails(c) ==
    /\ InBody(c, "Start")
    /\ ~StartRejects
    /\ ncmd' = ncmd + 1
    /\ cmd' = ncmd + 1
    /\ logBuffer' = BufReset
    /\ committed' = <<>>
    /\ seen' = Observe(<<>>)
    /\ proc' = Dropped
    /\ status' = SpawnFailedStatus
    /\ Return(c, [err |-> ErrStartFailed, st |-> "none", logs |-> <<>>])
    /\ UNCHANGED <<pipe, copier, reaper, commits>>

\* Start, cmd.Start() succeeds: the child runs, its output pipe is copied to
\* the MultiWriter by one goroutine (Stdout and Stderr are the same writer),
\* and waitForProcess is started.
StartSpawns(c) ==
    /\ InBody(c, "Start")
    /\ ~StartRejects
    /\ ncmd' = ncmd + 1
    /\ cmd' = ncmd + 1
    /\ logBuffer' = BufReset
    /\ committed' = <<>>
    /\ seen' = Observe(<<>>)
    /\ proc' = [Dropped EXCEPT ![ncmd + 1] = [NoProc EXCEPT !.st = "alive"]]
    /\ copier' = [copier EXCEPT ![ncmd + 1] = [NoCopier EXCEPT !.pc = "read"]]
    /\ status' = StatusRunning
    /\ reaper' = [reaper EXCEPT ![ncmd + 1] = [NoReaper EXCEPT !.pc = "spawned"]]
    /\ Return(c, [err |-> "ok", st |-> "none", logs |-> <<>>])
    /\ UNCHANGED <<pipe, commits>>

Start(c) == StartWhileRunning(c) \/ StartSpawnFails(c) \/ StartSpawns(c)

\* Variant: Stop without its guard.
StopNeverRejects == FALSE

\* Stop's guard: only a running process is signalled.
StopRejects == status # StatusRunning

\* Variant: the error of Signal is dropped.
SignalErrorIgnored(h) == h \in Handles

\* pm.cmd.Process.Signal(SIGTERM) succeeds until the process has been waited
\* for; afterwards it fails with "os: process already finished".
SignalSucceeds(h) == h \in Handles /\ proc[h].st \in {"alive", "zombie"}

\* Variant: no signal is sent.
NotSignalled(p) == p

\* The process after a successful kill(2): a live process has the signal
\* pending (pending SIGTERMs are not counted), a zombie is unaffected.
Signalled(p) == IF p.st = "alive" THEN [p EXCEPT !.sig = TRUE] ELSE p

\* Stop, rejected.
StopNotRunning(c) ==
    /\ InBody(c, "Stop")
    /\ StopRejects
    /\ Return(c, [err |-> ErrNotRunning, st |-> "none", logs |-> <<>>])
    /\ UNCHANGED <<status, cmd, logBuffer, ncmd, proc, pipe, copier, reaper,
                   committed, seen, commits>>

\* Stop, SIGTERM sent; Stop does not wait and does not touch status.
StopSignals(c) ==
    /\ InBody(c, "Stop")
    /\ ~StopRejects
    /\ SignalSucceeds(cmd)
    /\ proc' = [proc EXCEPT ![cmd] = Signalled(proc[cmd])]
    /\ Return(c, [err |-> "ok", st |-> "none", logs |-> <<>>])
    /\ UNCHANGED <<status, cmd, logBuffer, ncmd, pipe, copier, reaper,
                   committed, seen, commits>>

\* Stop, Signal returns an error.
StopSignalFails(c) ==
    /\ InBody(c, "Stop")
    /\ ~StopRejects
    /\ ~SignalSucceeds(cmd)
    /\ Return(c, [err |-> ErrSignalFailed, st |-> "none", logs |-> <<>>])
    /\ UNCHANGED <<status, cmd, logBuffer, ncmd, proc, pipe, copier, reaper,
                   committed, seen, commits>>

Stop(c) == StopNotRunning(c) \/ StopSignals(c) \/ StopSignalFails(c)

\* GetStatus: return pm.status.
GetStatus(c) ==
    /\ InBody(c, "GetStatus")
    /\ Return(c, [err |-> "ok", st |-> status, logs |-> <<>>])
    /\ UNCHANGED <<status, cmd, logBuffer, ncmd, proc, pipe, copier, reaper,
                   committed, seen, commits>>

\* GetLogs: return pm.logBuffer.String().
GetLogs(c) ==
    /\ InBody(c, "GetLogs")
    /\ Return(c, [err |-> "ok", st |-> "none", logs |-> BufString])
    /\ seen' = [seen EXCEPT ![c] = {}]
    /\ UNCHANGED <<status, cmd, logBuffer, ncmd, proc, pipe, copier, reaper,
                   committed, commits>>

----------------------------------------------------------------------------
\* The child process of handle h.

\* The child writes its next byte to stdout or stderr: both are the one pipe.
ChildWrite(h) ==
    /\ proc[h].st = "alive"
    /\ proc[h].written < MaxOut
    /\ proc' = [proc EXCEPT ![h].written = @ + 1]
    /\ pipe' = [pipe EXCEPT ![h] = Append(@, OutByte(h, proc[h].written + 1))]
    /\ ret' = NoRet
    /\ UNCHANGED <<status, cmd, logBuffer, mu, pc, op, ncmd, copier,
                   reaper, committed, seen, commits>>

\* The child terminates: exit code 0 or a non-zero exit code (on its own, or
\* from its handler of a pending SIGTERM), or death by the pending SIGTERM.
\* Its end of the pipe closes.
ChildExit(h, how) ==
    /\ proc[h].st = "alive"
    /\ how = "signaled" => proc[h].sig
    /\ proc' = [proc EXCEPT ![h] = [@ EXCEPT !.st = "zombie", !.exit = how, !.sig = FALSE]]
    /\ ret' = NoRet
    /\ UNCHANGED <<status, cmd, logBuffer, mu, pc, op, ncmd, pipe, copier,
                   reaper, committed, seen, commits>>

----------------------------------------------------------------------------
\* The goroutine os/exec starts to copy the child's pipe into the MultiWriter
\* over &pm.logBuffer and os.Stdout. It does not take pm.mu.

\* io.Copy reads what the pipe holds and calls Write on the MultiWriter;
\* logBuffer.Write, first half: the buffer's length is extended.
CopierGrow(h) ==
    /\ copier[h].pc = "read"
    /\ pipe[h] # <<>>
    /\ logBuffer' = BufGrow(Len(pipe[h]))
    /\ copier' = [copier EXCEPT ![h] = [pc |-> "copy", chunk |-> pipe[h], m |-> logBuffer.n]]
    /\ pipe' = [pipe EXCEPT ![h] = <<>>]
    /\ ret' = NoRet
    /\ UNCHANGED <<status, cmd, mu, pc, op, ncmd, proc, reaper, committed, seen,
                   commits>>

\* logBuffer.Write, second half: the chunk is copied into the new space.
CopierCopy(h) ==
    /\ copier[h].pc = "copy"
    /\ logBuffer' = BufCopy(copier[h].m, copier[h].chunk)
    /\ committed' = committed \o copier[h].chunk
    /\ seen' = Observe(committed \o copier[h].chunk)
    /\ copier' = [copier EXCEPT ![h] = [pc |-> "read", chunk |-> <<>>, m |-> 0]]
    /\ ret' = NoRet
    /\ UNCHANGED <<status, cmd, mu, pc, op, ncmd, proc, pipe, reaper,
                   commits>>

\* io.Copy reaches end of file: the child is gone and the pipe is drained.
CopierEOF(h) ==
    /\ copier[h].pc = "read"
    /\ pipe[h] = <<>>
    /\ proc[h].st \in {"zombie", "reaped"}
    /\ copier' = [copier EXCEPT ![h].pc = "done"]
    /\ ret' = NoRet
    /\ UNCHANGED <<status, cmd, logBuffer, mu, pc, op, ncmd, proc, pipe,
                   reaper, committed, seen, commits>>

----------------------------------------------------------------------------
\* waitForProcess, the goroutine Start launches after a successful spawn.

\* Variant: the error of cmd.Wait() is not looked at.
ExitStatusIgnoresError(err) == StatusSuccess

\* The terminal status recorded for the error cmd.Wait() returned.
ExitStatus(err) == IF err = "nil" THEN StatusSuccess ELSE StatusFailed

\* The error cmd.Wait() returns: nil after exit code 0, *exec.ExitError after
\* a non-zero exit or a signal death, or another error (I/O while copying).
WaitErrors(p) ==
    (IF p.exit = "zero" THEN {"nil"} ELSE {"ExitError"}) \cup {"other"}

\* Variant: pm.mu.Lock() is moved above pm.cmd.Wait().
WaitBeginLocked(h) ==
    /\ reaper[h].pc = "spawned"
    /\ mu = Free
    /\ mu' = ReaperOf(h)
    /\ reaper' = [reaper EXCEPT ![h] = [@ EXCEPT !.pc = "wait", !.target = cmd]]
    /\ ret' = NoRet
    /\ UNCHANGED <<status, cmd, logBuffer, pc, op, ncmd, proc, pipe, copier,
                   committed, seen, commits>>

\* The goroutine starts running and evaluates pm.cmd for pm.cmd.Wait().
WaitBegin(h) ==
    /\ reaper[h].pc = "spawned"
    /\ reaper' = [reaper EXCEPT ![h] = [@ EXCEPT !.pc = "wait", !.target = cmd]]
    /\ ret' = NoRet
    /\ UNCHANGED <<status, cmd, logBuffer, mu, pc, op, ncmd, proc, pipe,
                   copier, committed, seen, commits>>

\* cmd.Wait(): Process.Wait() returns once the child has exited, and reaps it.
WaitReaps(h) ==
    /\ reaper[h].pc = "wait"
    /\ reaper[h].target \in Handles
    /\ proc[reaper[h].target].st = "zombie"
    /\ proc' = [proc EXCEPT ![reaper[h].target].st = "reaped"]
    /\ reaper' = [reaper EXCEPT ![h].pc = "drain"]
    /\ ret' = NoRet
    /\ UNCHANGED <<status, cmd, logBuffer, mu, pc, op, ncmd, pipe, copier,
                   committed, seen, commits>>

\* cmd.Wait() returns once the copying goroutine has finished.
WaitReturns(h, e) ==
    /\ reaper[h].pc = "drain"
    /\ copier[reaper[h].target].pc = "done"
    /\ e \in WaitErrors(proc[reaper[h].target])
    /\ reaper' = [reaper EXCEPT ![h] = [@ EXCEPT !.pc = "lock", !.err = e]]
    /\ ret' = NoRet
    /\ UNCHANGED <<status, cmd, logBuffer, mu, pc, op, ncmd, proc, pipe,
                   copier, committed, seen, commits>>

\* pm.mu.Lock() in waitForProcess.
WaitLock(h) ==
    /\ reaper[h].pc = "lock"
    /\ mu = Free
    /\ mu' = ReaperOf(h)
    /\ reaper' = [reaper EXCEPT ![h].pc = "commit"]
    /\ ret' = NoRet
    /\ UNCHANGED <<status, cmd, logBuffer, pc, op, ncmd, proc, pipe,
                   copier, committed, seen, commits>>

\* The terminal status is stored, the deferred pm.mu.Unlock() runs and the
\* goroutine ends; the exit state it held is gone with it.
WaitCommit(h) ==
    /\ reaper[h].pc = "commit"
    /\ mu = ReaperOf(h)
    /\ status' = ExitStatus(reaper[h].err)
    /\ mu' = Free
    /\ reaper' = [reaper EXCEPT ![h] = [NoReaper EXCEPT !.pc = "done"]]
    /\ proc' = [proc EXCEPT ![reaper[h].target].exit = "none"]
    /\ commits' = [commits EXCEPT ![reaper[h].target] = @ + 1]
    /\ ret' = NoRet
    /\ UNCHANGED <<cmd, logBuffer, pc, op, ncmd, pipe, copier, committed, seen>>

waitForProcess(h) ==
    \/ WaitBegin(h)
    \/ WaitReaps(h)
    \/ \E e \in {"nil", "ExitError", "other"} : WaitReturns(h, e)
    \/ WaitLock(h)
    \/ WaitCommit(h)

Child(h) ==
    \/ ChildWrite(h)
    \/ \E how \in {"zero", "nonzero", "signaled"} : ChildExit(h, how)

Copier(h) == CopierGrow(h) \/ CopierCopy(h) \/ CopierEOF(h)

\* The supervising process exists: it has neither died in log.Fatal nor
\* left through os.Exit.
Up == main \notin {"fatal", "exit"}

\* A step that is not of main() and writes no response.
Silent == resp' = NoResp /\ UNCHANGED <<main, exe, req>>

\* The steps that no caller chooses: the goroutines in T take pm.mu, the
\* children run, the copying and waitForProcess goroutines run. The system is
\* followed for as long as the supervising process exists.
Background(T) ==
    \/ \E c \in T : Lock(c) /\ Up /\ Silent
    \/ \E h \in Handles : ChildWrite(h) /\ Up /\ Silent
    \/ \E h \in Handles, how \in {"zero", "nonzero", "signaled"} :
          ChildExit(h, how) /\ Up /\ Silent
    \/ \E h \in Handles : CopierGrow(h) /\ Up /\ Silent
    \/ \E h \in Handles : CopierCopy(h) /\ Up /\ Silent
    \/ \E h \in Handles : CopierEOF(h) /\ Up /\ Silent
    \/ \E h \in Handles : WaitBegin(h) /\ Up /\ Silent
    \/ \E h \in Handles : WaitReaps(h) /\ Up /\ Silent
    \/ \E h \in Handles, e \in {"nil", "ExitError", "other"} :
          WaitReturns(h, e) /\ Up /\ Silent
    \/ \E h \in Handles : WaitLock(h) /\ Up /\ Silent
    \/ \E h \in Handles : WaitCommit(h) /\ Up /\ Silent

\* The steps of the system when the goroutines in C call the four methods of
\* a constructed ProcessManager in any order.
NextOf(C) ==
    \/ \E c \in C, o \in Ops : Call(c, o) /\ Silent
    \/ \E c \in C : StartWhileRunning(c) /\ Silent
    \/ \E c \in C : StartSpawnFails(c) /\ Silent
    \/ \E c \in C : StartSpawns(c) /\ Silent
    \/ \E c \in C : StopNotRunning(c) /\ Silent
    \/ \E c \in C : StopSignals(c) /\ Silent
    \/ \E c \in C : StopSignalFails(c) /\ Silent
    \/ \E c \in C : GetStatus(c) /\ Silent
    \/ \E c \in C : GetLogs(c) /\ Silent
    \/ Background(C)

Next == NextOf(Clients)

Spec == Init /\ [][Next]_vars

\* Scheduling: a goroutine that can run does run, sync.Mutex hands the lock to
\* a goroutine that keeps waiting for it, and the copying goroutine and
\* cmd.Wait() make progress. The child and the callers owe nothing.
Fairness ==
    /\ \A c \in Clients :
          WF_vars((Start(c) \/ Stop(c) \/ GetStatus(c) \/ GetLogs(c)) /\ Silent)
    /\ \A h \in Handles :
          /\ WF_vars(Copier(h) /\ Silent)
          /\ WF_vars((WaitBegin(h) \/ WaitReaps(h) \/ WaitCommit(h)
                      \/ \E e \in {"nil", "ExitError", "other"} : WaitReturns(h, e))
                     /\ Silent)
          /\ SF_vars(WaitLock(h) /\ Silent)

\* The system under fair scheduling, with one goroutine serving requests: it
\* issues every sequence of calls and contends with waitForProcess for pm.mu.
OneClient == {"h1"}
FairSpec == Init /\ [][NextOf(OneClient)]_vars /\ Fairness

----------------------------------------------------------------------------
\* main() and the HTTP handlers.

\* The fields of the ProcessManager and the goroutines and processes behind it.
pmvars == <<status, cmd, logBuffer, mu, pc, op, ncmd, proc, pipe, copier,
            reaper, committed, seen, commits>>

\* The program is started: any command line, any file system.
ProgInit ==
    /\ status = StatusNotStarted
    /\ cmd = Nil
    /\ logBuffer = [arr |-> <<>>, n |-> 0]
    /\ mu = Free
    /\ pc = [c \in Threads |-> "idle"]
    /\ op = [c \in Threads |-> "none"]
    /\ ret = NoRet
    /\ ncmd = 0
    /\ proc = [h \in Handles |-> NoProc]
    /\ pipe = [h \in Handles |-> <<>>]
    /\ copier = [h \in Handles |-> NoCopier]
    /\ reaper = [h \in Handles |-> NoReaper]
    /\ committed = <<>>
    /\ seen = [c \in Threads |-> {}]
    /\ commits = [h \in Handles |-> 0]
    /\ main = "args"
    /\ exe \in {"found", "missing", "unreadable"}
    /\ req = [c \in Clients |-> NoReq]
    /\ resp = NoResp

\* Variant: the result of os.Stat is not looked at.
StatNeverFatal(found) == FALSE

\* os.IsNotExist(err) for the error of os.Stat; any other error lets main go on.
StatFatal(found) == found = "missing"

\* Variant: the /exit handler forgets its method check.
MethodAllowedButExit(route, method) ==
    route \in {"/start", "/stop"} => method = "POST"

\* r.Method != http.MethodPost, in the three handlers that have the check.
MethodAllowed(route, method) == route \in PostOnly => method = "POST"

\* Variant: the /exit handler returns when Stop fails, as the /stop handler does.
AfterExitStopChecked(err) == IF err = "ok" THEN "write" ELSE "none"

\* Where the /exit handler goes when pm.Stop() has returned err: the result is
\* dropped and the response is written.
AfterExitStop(err) == "write"

\* len(args) < 1 is fatal.
MainArgs(n) ==
    /\ main = "args"
    /\ main' = IF n < 1 THEN "fatal" ELSE "stat"
    /\ ret' = NoRet /\ resp' = NoResp
    /\ UNCHANGED <<pmvars, exe, req>>

\* os.Stat on the executable's path, then NewProcessManager.
MainStat ==
    /\ main = "stat"
    /\ main' = IF StatFatal(exe) THEN "fatal" ELSE "new"
    /\ ret' = NoRet /\ resp' = NoResp
    /\ UNCHANGED <<pmvars, exe, req>>

\* Variant: main() goes to the server without the initial Start.
MainSkipsStart ==
    /\ main = "new"
    /\ main' = "listen"
    /\ ret' = NoRet /\ resp' = NoResp
    /\ UNCHANGED <<pmvars, exe, req>>

\* main() calls manager.Start().
MainStart ==
    /\ main = "new"
    /\ Call(Main, "Start")
    /\ main' = "start"
    /\ resp' = NoResp
    /\ UNCHANGED <<exe, req>>

\* manager.Start() returns to main(): an error is logged and nothing else.
MainStarted ==
    /\ main = "start"
    /\ Start(Main)
    /\ main' = "listen"
    /\ resp' = NoResp
    /\ UNCHANGED <<exe, req>>

\* The handlers are registered and http.ListenAndServe binds the port, or
\* fails and main() dies in log.Fatalf.
MainListen(ok) ==
    /\ main = "listen"
    /\ main' = IF ok THEN "serve" ELSE "fatal"
    /\ ret' = NoRet /\ resp' = NoResp
    /\ UNCHANGED <<pmvars, exe, req>>

\* What handler goroutine c writes to its http.ResponseWriter.
Response(c, code, text, logs) ==
    [by |-> c, route |-> req[c].route, method |-> req[c].method, code |-> code,
     text |-> text, logs |-> logs]

\* A request whose method the handler refuses: http.Error and return.
Refuse(c, route, method) ==
    /\ main = "serve"
    /\ pc[c] = "idle" /\ req[c] = NoReq
    /\ ~MethodAllowed(route, method)
    /\ resp' = [by |-> c, route |-> route, method |-> method,
                code |-> StatusMethodNotAllowed,
                text |-> "Invalid request method", logs |-> <<>>]
    /\ ret' = NoRet
    /\ UNCHANGED <<pmvars, main, exe, req>>

\* A request whose handler goes on to call its method of the ProcessManager.
Accept(c, route, method) ==
    /\ main = "serve"
    /\ req[c] = NoReq
    /\ MethodAllowed(route, method)
    /\ Call(c, OpOf(route))
    /\ req' = [req EXCEPT ![c] = [route |-> route, method |-> method, at |-> "call"]]
    /\ resp' = NoResp
    /\ UNCHANGED <<main, exe>>

\* makeStatusHandler: pm.GetStatus() returns and the status is encoded.
StatusHandler(c) ==
    /\ Up /\ req[c].route = "/status"
    /\ GetStatus(c)
    /\ resp' = Response(c, StatusOK, ret'.st, <<>>)
    /\ req' = [req EXCEPT ![c] = NoReq]
    /\ UNCHANGED <<main, exe>>

\* makeStartHandler: pm.Start() returns; an error is a 400 with its text.
StartHandler(c) ==
    /\ Up /\ req[c].route = "/start"
    /\ Start(c)
    /\ resp' = IF ret'.err = "ok"
                 THEN Response(c, StatusOK, "Process started successfully.", <<>>)
                 ELSE Response(c, StatusBadRequest, ret'.err, <<>>)
    /\ req' = [req EXCEPT ![c] = NoReq]
    /\ UNCHANGED <<main, exe>>

\* makeStopHandler: pm.Stop() returns; an error is a 400 with its text.
StopHandler(c) ==
    /\ Up /\ req[c].route = "/stop"
    /\ Stop(c)
    /\ resp' = IF ret'.err = "ok"
                 THEN Response(c, StatusOK, "Process stop signal sent.", <<>>)
                 ELSE Response(c, StatusBadRequest, ret'.err, <<>>)
    /\ req' = [req EXCEPT ![c] = NoReq]
    /\ UNCHANGED <<main, exe>>

\* makeLogHandler: pm.GetLogs() returns and the logs are written.
LogHandler(c) ==
    /\ Up /\ req[c].route = "/log"
    /\ GetLogs(c)
    /\ resp' = Response(c, StatusOK, "none", ret'.logs)
    /\ req' = [req EXCEPT ![c] = NoReq]
    /\ UNCHANGED <<main, exe>>

\* makeExitHandler: pm.Stop() returns.
ExitStop(c) ==
    /\ Up /\ req[c].route = "/exit" /\ req[c].at = "call"
    /\ Stop(c)
    /\ req' = [req EXCEPT ![c] = IF AfterExitStop(ret'.err) = "write"
                                   THEN [@ EXCEPT !.at = "write"] ELSE NoReq]
    /\ resp' = NoResp
    /\ UNCHANGED <<main, exe>>

\* makeExitHandler: w.WriteHeader(http.StatusOK) and the two w.Write calls.
ExitResponds(c) ==
    /\ Up /\ req[c].route = "/exit" /\ req[c].at = "write"
    /\ resp' = Response(c, StatusOK, "Process stop signal sent.Exit", <<>>)
    /\ req' = [req EXCEPT ![c] = [@ EXCEPT !.at = "exit"]]
    /\ ret' = NoRet
    /\ UNCHANGED <<pmvars, main, exe>>

\* makeExitHandler: os.Exit(0) ends the program and every goroutine in it.
ExitTerminates(c) ==
    /\ Up /\ req[c].route = "/exit" /\ req[c].at = "exit"
    /\ main' = "exit"
    /\ ret' = NoRet /\ resp' = NoResp
    /\ UNCHANGED <<pmvars, exe, req>>

\* The steps of the program when the goroutines in C serve its requests.
ProgNextOf(C) ==
    \/ \E n \in {0, 1} : MainArgs(n)
    \/ MainStat
    \/ MainStart
    \/ MainStarted
    \/ \E ok \in BOOLEAN : MainListen(ok)
    \/ \E c \in C, route \in Routes, method \in Methods : Refuse(c, route, method)
    \/ \E c \in C, route \in Routes, method \in Methods : Accept(c, route, method)
    \/ \E c \in C : StatusHandler(c)
    \/ \E c \in C : StartHandler(c)
    \/ \E c \in C : StopHandler(c)
    \/ \E c \in C : LogHandler(c)
    \/ \E c \in C : ExitStop(c)
    \/ \E c \in C : ExitResponds(c)
    \/ \E c \in C : ExitTerminates(c)
    \/ Background(C \cup {Main})

\* The program, from its command line on, with one goroutine serving its
\* requests one after another; the goroutine of main(), the children, the
\* copying goroutines and waitForProcess run beside it.
ProgNext == ProgNextOf(OneClient)

ProgSpec == ProgInit /\ [][ProgNext]_vars

\* Scheduling of the program: a handler that can go on does, sync.Mutex hands
\* the lock to a goroutine that keeps waiting for it, and waitForProcess
\* releases the lock it took. The child and the clients owe nothing.
ProgFairness ==
    /\ \A c \in OneClient :
          /\ SF_vars(Lock(c) /\ Up /\ Silent)
          /\ WF_vars(StatusHandler(c) \/ StartHandler(c) \/ StopHandler(c)
                     \/ LogHandler(c))
          /\ WF_vars(ExitStop(c))
          /\ WF_vars(ExitResponds(c))
          /\ WF_vars(ExitTerminates(c))
    /\ \A h \in Handles : WF_vars(WaitCommit(h) /\ Up /\ Silent)

\* The program under fair scheduling, with one goroutine serving requests.
FairProgSpec == ProgInit /\ [][ProgNextOf(OneClient)]_vars /\ ProgFairness

----------------------------------------------------------------------------
\* Steps, as the properties below name them.

Terminal == {StatusSuccess, StatusFailed}

\* Client c's method o runs its body and returns in this step.
Returns(c, o) == InBody(c, o) /\ pc'[c] = "idle"

\* The waitForProcess goroutine of handle h commits in this step.
Commits(h) == reaper[h].pc = "commit" /\ reaper'[h].pc = "done"

TypeOK ==
    /\ status \in ProcessStatus
    /\ cmd \in Handles \cup {Nil}
    /\ cmd = ncmd
    /\ logBuffer.n <= Len(logBuffer.arr)
    /\ \A c \in Threads : pc[c] \in {"idle", "lock", "body"}
    /\ main \in {"args", "stat", "new", "start", "listen", "serve", "fatal", "exit"}
    /\ \A c \in Clients : req[c].route \in Routes \cup {"none"}

----------------------------------------------------------------------------
\* C1: a Start that finds status == Running returns the "already running"
\* error and leaves pm.cmd, pm.logBuffer and pm.status as they were.
C1_StartWhileRunningRejected ==
    [][\A c \in Clients :
          (Returns(c, "Start") /\ status = StatusRunning) =>
              /\ ret'.by = c /\ ret'.op = "Start"
              /\ ret'.err = ErrAlreadyRunning
              /\ UNCHANGED <<cmd, logBuffer, status>>
              /\ UNCHANGED <<ncmd, proc, reaper, copier>>]_vars

\* A Start has just been rejected while a child of the record is running.
C1_Witness ==
    /\ ret.op = "Start" /\ ret.err = ErrAlreadyRunning
    /\ status = StatusRunning /\ cmd \in Handles /\ proc[cmd].st = "alive"

\* C2: a Stop that finds status NotStarted, Success or Failed returns the
\* "not running" error, signals no process and leaves status, pm.cmd and the
\* log as they were.
C2_StopWhileNotRunningRejected ==
    [][\A c \in Clients :
          (Returns(c, "Stop") /\ status \in {StatusNotStarted, StatusSuccess, StatusFailed}) =>
              /\ ret'.by = c /\ ret'.op = "Stop"
              /\ ret'.err = ErrNotRunning
              /\ UNCHANGED <<status, cmd, logBuffer>>
              /\ UNCHANGED proc]_vars

\* A Stop has just been rejected after a run that ended.
C2_Witness ==
    /\ ret.op = "Stop" /\ ret.err = ErrNotRunning
    /\ status = StatusSuccess /\ cmd \in Handles /\ proc[cmd].st = "reaped"

\* C3: once a spawned child has terminated, waitForProcess eventually commits
\* a terminal status for that run: Success when cmd.Wait() returned nil
\* (possible only after exit code 0), Failed when it returned an error (always
\* so after a non-zero exit or a signal death); and while the child of the
\* current handle is alive, status is Running.
C3_ExitEventuallyCommitted ==
    /\ [](\A h \in Handles :
            /\ (cmd = h /\ proc[h].st = "alive") => status = StatusRunning
            /\ reaper[h].pc \in {"lock", "commit"} =>
                  /\ reaper[h].err = "nil" => proc[h].exit = "zero"
                  /\ proc[h].exit \in {"nonzero", "signaled"} => reaper[h].err # "nil")
    /\ [][\A h \in Handles : Commits(h) =>
            /\ cmd = h /\ status = StatusRunning
            /\ reaper[h].err = "nil" => status' = StatusSuccess
            /\ reaper[h].err # "nil" => status' = StatusFailed]_vars
    /\ \A h \in Handles :
          (proc[h].st = "zombie") ~> (cmd = h /\ commits[h] = 1 /\ status \in Terminal)

\* A child exited with code 0 and the record now says Success for that run.
C3_Witness ==
    /\ status = StatusSuccess /\ cmd \in Handles
    /\ commits[cmd] = 1 /\ proc[cmd].st = "reaped" /\ reaper[cmd].pc = "done"

\* C4: per spawn the commit Running -> {Success, Failed} happens once, and a
\* terminal status changes only in a step of Start.
C4_StatusMonotonicPerRun ==
    [][/\ (status \in Terminal /\ status' # status) =>
              \E c \in Clients : Returns(c, "Start")
       /\ \A h \in Handles :
              /\ commits'[h] <= 1
              /\ commits'[h] # commits[h] =>
                    /\ status = StatusRunning /\ status' \in Terminal
                    /\ cmd = h /\ Commits(h)]_vars

\* A second run is under way after the first was committed once.
C4_Witness ==
    /\ ncmd = 2 /\ commits[1] = 1 /\ status = StatusRunning
    /\ proc[2].st = "alive"

\* C5: status changes only by Start (NotStarted, Success or Failed to Running,
\* or to Failed when the spawn fails) and by waitForProcess (Running to
\* Success or Failed); Start is rejected exactly when status is Running; and
\* NotStarted is never entered again.
C5_OnlyTheseTransitions ==
    [][/\ status' # status =>
              \/ /\ \E c \in Clients : Returns(c, "Start")
                 /\ status \in {StatusNotStarted, StatusSuccess, StatusFailed}
                 /\ status' \in {StatusRunning, StatusFailed}
                 /\ status' = StatusRunning <=> ret'.err = "ok"
              \/ /\ \E h \in Handles : Commits(h)
                 /\ status = StatusRunning
                 /\ status' \in Terminal
       /\ \A c \in Clients : Returns(c, "Start") =>
              /\ status = StatusRunning <=> ret'.err = ErrAlreadyRunning
              /\ status # StatusRunning =>
                    /\ ret'.err \in {"ok", ErrStartFailed}
                    /\ ret'.err = "ok" => status' = StatusRunning
                    /\ ret'.err = ErrStartFailed => status' = StatusFailed
       /\ status' # StatusNotStarted \/ status = StatusNotStarted]_vars

\* The record has been started again after a run that ended.
C5_Witness ==
    /\ ret.op = "Start" /\ ret.err = "ok" /\ ncmd = 2
    /\ commits[1] = 1 /\ status = StatusRunning

\* C6: a Stop that finds status Running sends SIGTERM to the process of the
\* current handle, returns while that process may still be alive, and leaves
\* status alone; Running becomes Success or Failed only in the commit of
\* waitForProcess.
C6_StopOnlySignals ==
    [][/\ \A c \in Clients :
              (Returns(c, "Stop") /\ status = StatusRunning) =>
                  /\ status' = StatusRunning
                  /\ UNCHANGED <<cmd, logBuffer, reaper>>
                  /\ ret'.err \in {"ok", ErrSignalFailed}
                  /\ ret'.err = "ok" =>
                        /\ proc[cmd].st \in {"alive", "zombie"}
                        /\ proc[cmd].st = "alive" =>
                              proc'[cmd] = [proc[cmd] EXCEPT !.sig = TRUE]
       /\ (status = StatusRunning /\ status' # StatusRunning) =>
              /\ \E h \in Handles : Commits(h)
              /\ status' \in Terminal]_vars

\* Stop has returned, the child has the signal pending and has not exited.
C6_Witness ==
    /\ ret.op = "Stop" /\ ret.err = "ok" /\ status = StatusRunning
    /\ proc[cmd].st = "alive" /\ proc[cmd].sig

\* C7: a Start whose spawn fails returns the start error with status Failed
\* and starts no waitForProcess goroutine; while the handle of the failed
\* spawn is current status stays Failed, and the next Start is not rejected.
C7_SpawnFailure ==
    [][/\ \A c \in Clients :
              (Returns(c, "Start") /\ ret'.err = ErrStartFailed) =>
                  /\ status # StatusRunning
                  /\ status' = StatusFailed
                  /\ reaper' = reaper
                  /\ proc'[cmd'].st = "none"
       /\ (cmd \in Handles /\ proc[cmd].st = "none") =>
              /\ status = StatusFailed
              /\ reaper[cmd].pc = "none"
              /\ cmd' = cmd => status' = StatusFailed
              /\ \A c \in Clients : Returns(c, "Start") =>
                    ret'.err \in {"ok", ErrStartFailed}]_vars

\* A spawn has just failed.
C7_Witness ==
    /\ ret.op = "Start" /\ ret.err = ErrStartFailed
    /\ status = StatusFailed /\ proc[cmd].st = "none"

\* C8: a Stop that finds status Running but a process already waited for gets
\* an error from Signal, returns it, and leaves status Running; only the
\* commit of waitForProcess ends Running.
C8_SignalErrorLeavesRunning ==
    [][/\ \A c \in Clients :
              (Returns(c, "Stop") /\ status = StatusRunning /\ proc[cmd].st = "reaped") =>
                  /\ ret'.by = c /\ ret'.err = ErrSignalFailed
                  /\ status' = StatusRunning
                  /\ UNCHANGED <<cmd, logBuffer, proc, reaper>>
       /\ \A c \in Clients :
              (Returns(c, "Stop") /\ ret'.err = ErrSignalFailed) =>
                  (status = StatusRunning /\ status' = StatusRunning)
       /\ (status = StatusRunning /\ status' # StatusRunning) =>
              \E h \in Handles : Commits(h) /\ h = cmd]_vars

\* Stop has just failed to signal; the record still says Running.
C8_Witness ==
    /\ ret.op = "Stop" /\ ret.err = ErrSignalFailed
    /\ status = StatusRunning /\ proc[cmd].st = "reaped"

\* The bytes the child of handle h has written so far, in the order written.
RunOutput(h) ==
    IF h \in Handles THEN [k \in 1..proc[h].written |-> OutByte(h, k)] ELSE <<>>

IsPrefix(a, b) == Len(a) <= Len(b) /\ a = SubSeq(b, 1, Len(a))

\* Nothing the child of handle h wrote is still on its way to the log.
Quiet(h) == h \in Handles => (pipe[h] = <<>> /\ copier[h].pc # "copy")

\* C9: every GetStatus returns the status the record holds when it reads it,
\* and every GetLogs returns a value the log held, as a completed sequence of
\* appends, at some instant between the call's invocation and its return.
C9_NoTornReads ==
    [][\A c \in Clients :
          /\ Returns(c, "GetStatus") => ret'.st = status
          /\ Returns(c, "GetLogs") => ret'.logs \in seen[c]]_vars

\* C10: GetLogs returns the bytes the child of the most recent Start has
\* written, in the order written and none from an earlier run: all of them
\* once none is in transit, a leading part of them while some are.
C10_LogsAreCurrentRunOutput ==
    [][\A c \in Clients : Returns(c, "GetLogs") =>
          /\ IsPrefix(ret'.logs, RunOutput(cmd))
          /\ Quiet(cmd) => ret'.logs = RunOutput(cmd)]_vars

\* The system under fair scheduling when sync.Mutex also hands the lock to a
\* request goroutine that keeps waiting for it.
FairCallSpec == FairSpec /\ \A c \in OneClient : SF_vars(Lock(c) /\ Silent)

\* The waitForProcess goroutines that were started and have not committed.
PendingReapers == {h \in Handles : reaper[h].pc \notin {"none", "done"}}

\* C11: waitForProcess holds pm.mu only to commit, never while it waits for
\* the child; whoever holds pm.mu is at a step that releases it; and so every
\* call that waits for pm.mu gets it and returns, whether or not the child
\* ever exits.
C11_CallsNeverBlockOnChild ==
    /\ [](/\ \A h \in Handles :
               /\ reaper[h].pc \in {"spawned", "wait", "drain", "lock"} => mu # ReaperOf(h)
               /\ mu = ReaperOf(h) => reaper[h].pc = "commit"
          /\ \A c \in Clients : mu = ClientOf(c) => pc[c] = "body"
          /\ mu = Free \/ (\E c \in Clients : mu = ClientOf(c))
                       \/ (\E h \in Handles : mu = ReaperOf(h)))
    /\ \A c \in Clients : (pc[c] = "lock") ~> (pc[c] = "idle")

\* A GetStatus has just returned "running" while the child is alive.
C11_Witness ==
    /\ ret.op = "GetStatus" /\ ret.st = StatusRunning
    /\ cmd \in Handles /\ proc[cmd].st = "alive" /\ reaper[cmd].pc = "wait"

\* C15: the waitForProcess goroutine started for handle h reads h from pm.cmd,
\* and when it commits pm.cmd is still h, no later exec.Command was made, and
\* status is the Running its own Start stored.
C15_ReaperCommitsOwnRun ==
    [][\A h \in Handles :
          /\ (reaper[h].pc = "spawned" /\ reaper'[h].pc = "wait") =>
                (cmd = h /\ reaper'[h].target = h)
          /\ Commits(h) =>
                /\ reaper[h].target = h
                /\ cmd = h /\ ncmd = h
                /\ status = StatusRunning
                /\ commits[h] = 0]_vars

\* The second run has been committed by its own goroutine, after the first.
C15_Witness ==
    /\ ncmd = 2 /\ cmd = 2 /\ commits[1] = 1 /\ commits[2] = 1
    /\ status \in Terminal

\* C16 as amended: status is Running exactly when pm.cmd refers to a spawned
\* process whose waitForProcess has not committed (cmd.Wait may have reaped
\* it already); pm.cmd is nil only before the first Start gets to
\* exec.Command and is never cleared: after a commit it still refers to the
\* finished run, after a failed spawn to the command that never started.
C16_RunningIffUncommittedHandle ==
    /\ [](/\ status = StatusRunning <=>
                (cmd \in Handles /\ proc[cmd].st \in {"alive", "zombie", "reaped"}
                                 /\ commits[cmd] = 0)
          /\ (cmd \in Handles /\ proc[cmd].st \in {"alive", "zombie"}) =>
                status = StatusRunning
          /\ cmd = Nil <=> status = StatusNotStarted)
    /\ [][/\ cmd # Nil => cmd' # Nil
          /\ (\E h \in Handles : Commits(h)) => cmd' = cmd
          /\ \A c \in Clients :
                (Returns(c, "Start") /\ ret'.err = ErrStartFailed) =>
                    (cmd' \in Handles /\ proc'[cmd'].st = "none")]_vars

\* A run was committed and pm.cmd still refers to it.
C16_Witness ==
    /\ status \in Terminal /\ cmd \in Handles
    /\ commits[cmd] = 1 /\ proc[cmd].st = "reaped"

\* C16 as claimed: status is Running exactly when pm.cmd is non-nil and its
\* process has not been reaped, and pm.cmd is nil whenever status is not
\* Running.
C16_HandleOnlyWhileRunning ==
    /\ status = StatusRunning <=>
          (cmd \in Handles /\ proc[cmd].st \in {"alive", "zombie"})
    /\ status # StatusRunning => cmd = Nil

\* C17: every step that writes pm.status, pm.cmd or pm.logBuffer, and the
\* read of pm.cmd by waitForProcess, is taken by the goroutine that holds
\* pm.mu; no append to the buffer is under way while another goroutine holds
\* pm.mu for its own access.
C17_AllAccessUnderLock ==
    /\ [](\A h \in Handles : copier[h].pc = "copy" => mu = Free)
    /\ [][/\ (status' # status \/ cmd' # cmd \/ logBuffer' # logBuffer) => mu # Free
          /\ \A h \in Handles :
                (reaper[h].pc = "spawned" /\ reaper'[h].pc = "wait") =>
                    mu = ReaperOf(h)]_vars

\* C18: the waitForProcess goroutines started and not yet committed number
\* one while status is Running and none otherwise.
C18_OneReaperWhileRunning ==
    /\ Cardinality(PendingReapers) <= 1
    /\ Cardinality(PendingReapers) = 1 <=> status = StatusRunning
    /\ status = StatusRunning => PendingReapers = {cmd}

\* The second run is Running with its one goroutine; the first has committed.
C18_Witness ==
    /\ ncmd = 2 /\ status = StatusRunning /\ PendingReapers = {2}
    /\ reaper[1].pc = "done"

\* C20: a Start whose spawn fails leaves an empty log, status Failed and a
\* new handle that has no process, whatever the run before it left; until
\* the next Start gets to exec.Command, GetLogs returns the empty string and
\* GetStatus returns failed.
C20_FailedSpawnDiscardsPreviousRun ==
    /\ [](\A h \in Handles : (cmd = h /\ proc[h].st = "none") =>
            (BufString = <<>> /\ status = StatusFailed))
    /\ [][\A c \in Clients :
            /\ (Returns(c, "Start") /\ ret'.err = ErrStartFailed) =>
                  /\ logBuffer'.n = 0
                  /\ status' = StatusFailed
                  /\ cmd' = ncmd + 1 /\ cmd' # cmd
                  /\ proc'[cmd'].st = "none"
            /\ (cmd \in Handles /\ proc[cmd].st = "none") =>
                  /\ Returns(c, "GetLogs") => ret'.logs = <<>>
                  /\ Returns(c, "GetStatus") => ret'.st = StatusFailed]_vars

\* A spawn has just failed after a committed run that had logged output.
C20_Witness ==
    /\ ret.op = "Start" /\ ret.err = ErrStartFailed
    /\ cmd = 2 /\ commits[1] = 1 /\ Len(logBuffer.arr) > 0
    /\ logBuffer.n = 0 /\ status = StatusFailed

\* C12: in the /exit handler, whatever pm.Stop() returns the handler goes on
\* to write its 200 response, leaving the ProcessManager as Stop left it; the
\* program ends only from the handler that has written the response; after
\* os.Exit no step is taken; and a POST /exit that reached its handler ends
\* the program, whether or not the child ever exits.
C12_ExitStopsThenTerminates ==
    /\ [][/\ \A c \in Clients :
                (req[c].route = "/exit" /\ Returns(c, "Stop")) =>
                    (req'[c].at = "write" /\ main' = main)
          /\ (resp'.route = "/exit" /\ resp'.code = StatusOK) =>
                /\ \E c \in Clients : req[c].at = "write" /\ req'[c].at = "exit"
                /\ UNCHANGED <<pmvars, main>>
          /\ (main' = "exit" /\ main # "exit") =>
                /\ \E c \in Clients : req[c].at = "exit"
                /\ UNCHANGED pmvars
          /\ main # "exit"]_vars
    /\ \A c \in OneClient : (req[c].route = "/exit") ~> (main = "exit")

\* The program has ended through /exit while the child is still alive.
C12_Witness ==
    /\ main = "exit" /\ status = StatusRunning
    /\ cmd \in Handles /\ proc[cmd].st = "alive"

\* C13: no handler of /start, /stop or /exit gets past its method check with
\* a request that is not a POST; the response to such a request is a 405,
\* written in a step that leaves the ProcessManager, its goroutines, main()
\* and the requests in hand as they were.
C13_NonPostRefused ==
    /\ [](\A c \in Clients : req[c].route \in PostOnly => req[c].method = "POST")
    /\ [][(resp'.by # "none" /\ resp'.route \in PostOnly /\ resp'.method # "POST") =>
             /\ resp'.code = StatusMethodNotAllowed
             /\ UNCHANGED <<pmvars, main, req>>]_vars

\* A GET /exit has just been refused while the child runs.
C13_Witness ==
    /\ resp.route = "/exit" /\ resp.method = "GET"
    /\ resp.code = StatusMethodNotAllowed
    /\ main = "serve" /\ status = StatusRunning

\* C14: when no file exists at the executable's path, main() gets no further
\* than os.Stat: no ProcessManager method is called, no command is made, the
\* server never serves and no response is written.
C14_MissingExecutableIsFatal ==
    exe = "missing" =>
        /\ main \in {"args", "stat", "fatal"}
        /\ status = StatusNotStarted /\ cmd = Nil /\ ncmd = 0 /\ mu = Free
        /\ \A c \in Threads : pc[c] = "idle"
        /\ \A c \in Clients : req[c] = NoReq
        /\ resp = NoResp

\* main() has died on the missing file.
C14_Witness == exe = "missing" /\ main = "fatal" /\ ncmd = 0

\* C19: main() has called Start before it binds the port, so while requests
\* are served status is not NotStarted and /status never answers
\* "not_started"; requests are in hand and responses written only once the
\* server serves; and main() goes on to bind the port whatever Start returned.
C19_StartedBeforeServing ==
    /\ [](/\ main \in {"listen", "serve", "exit"} =>
                (ncmd >= 1 /\ status # StatusNotStarted)
          /\ main \in {"args", "stat", "new"} => ncmd = 0
          /\ resp.route = "/status" =>
                resp.text \in {StatusRunning, StatusSuccess, StatusFailed}
          /\ (\E c \in Clients : req[c] # NoReq) => main \in {"serve", "exit"}
          /\ resp # NoResp => main = "serve")
    /\ [][(main = "start" /\ main' # "start") => main' = "listen"]_vars

\* The initial Start failed to spawn and /status has just answered "failed".
C19_Witness ==
    /\ main = "serve" /\ ncmd = 1 /\ proc[1].st = "none"
    /\ resp.route = "/status" /\ resp.text = StatusFailed
====
